---- MODULE Spec2Model ----
(***************************************************************************)
(* Model of goresetit's reset workflow: ResetRepo (functions.go), the tag  *)
(* enumerator GetGitTags and the two release cleaners                       *)
(* DeleteGitHubReleases / DeleteGitLabReleases.                             *)
(*                                                                          *)
(* Every external step (an OS call, a git command, a provider API call) is  *)
(* one action whose outcome (ok / failed) is chosen by the environment.     *)
(* `log' records the git commands and API calls in the order issued,        *)
(* `transcript' the console events that matter, `remote' the state of the   *)
(* hosted repository.  Strings that the code inspects or parses are         *)
(* sequences of one-character strings.                                      *)
(***************************************************************************)
EXTENDS Integers, Sequences, FiniteSets, TLC

VARIABLES
    entry,       \* which function was called: "ResetRepo" or "DeleteReleases"
    repoInfo,    \* the RepoInfo argument
    commitMessage,
    pc,          \* position inside the called function
    opIdx,       \* loop index of the loop pc is in (1-based)
    tags,        \* ResetRepo's local `tags`
    releases,    \* the `releases` slice returned by ListReleases
    err,         \* the error the function returns ("nil" when none)
    result,      \* "Running", "Success", "Fatal" or "Panic"
    log,         \* git commands and provider API calls issued so far
    transcript,  \* console events printed so far
    tagOutput,   \* what `git tag` prints in the clone
    remote,      \* hosted repository: history, tags, releases
    remote0,     \* the hosted repository before the run
    wsExists,    \* <tempdir>/git-tmp exists
    cwd,         \* process working directory: "orig", "ws" or "repo"
    oslog,       \* filesystem calls made so far, with their outcomes
    flags,       \* main: the parsed command line (NoFlags when main is not running)
    mainPc,      \* main: position ("none" when main is not running)
    exitCode,    \* main: process exit status (Running until the process ends)
    uilog,       \* main: prompts shown and completion messages printed
    ui,          \* main: the prompt model on screen (NoUi when none)
    run,         \* number of the current ResetRepo run (1 or 2)
    prev,        \* what the first of two runs did (NoPrev during the first)
    confirmed,   \* main: what PromptConfirmation returned (FALSE before it returns)
    other,       \* a second process of the program on the same machine (NoOther when none)
    keys         \* the key events fed to a prompt model on its own, each with
                 \* whether Update answered it with tea.Quit

vars == <<entry, repoInfo, commitMessage, pc, opIdx, tags, releases, err,
          result, log, transcript, tagOutput, remote, remote0, wsExists, cwd,
          oslog, flags, mainPc, exitCode, uilog, ui, run, prev, confirmed,
          other, keys>>

\* what ResetRepo and the release cleaners never touch
outer == <<flags, mainPc, exitCode, uilog, ui, run, prev, confirmed, other, keys>>

----------------------------------------------------------------------------
(* Bounds *)

MaxTags == 3        \* tags on the hosted repository
MaxReleases == 3    \* releases on the hosted repository
PerPage == 2        \* releases returned by one un-paginated listing
                    \* (stands for the providers' default page size)

----------------------------------------------------------------------------
(* Strings as character sequences *)

NL == "\n"
Whitespace == {" ", NL, "\t", "\r"}

Digit == <<"1", "2", "3", "4", "5", "6", "7", "8", "9">>

\* the i-th tag name, in git's (sorted) listing order: v1, v2, ...
TagNameOf(i) == <<"v", Digit[i]>>

RECURSIVE Concat(_)
Concat(ss) == IF ss = <<>> THEN <<>> ELSE Head(ss) \o Concat(Tail(ss))

\* strings.TrimSpace
RECURSIVE TrimLeft(_)
TrimLeft(s) ==
    IF s # <<>> /\ Head(s) \in Whitespace THEN TrimLeft(Tail(s)) ELSE s

RECURSIVE TrimRight(_)
TrimRight(s) ==
    IF s # <<>> /\ s[Len(s)] \in Whitespace
    THEN TrimRight(SubSeq(s, 1, Len(s) - 1))
    ELSE s

TrimSpace(s) == TrimRight(TrimLeft(s))

\* strings.Split(s, sep) for a one-character separator: always at least one
\* element, "" splits into one empty string
RECURSIVE SplitAcc(_, _, _)
SplitAcc(s, sep, cur) ==
    IF s = <<>> THEN <<cur>>
    ELSE IF Head(s) = sep
         THEN <<cur>> \o SplitAcc(Tail(s), sep, <<>>)
         ELSE SplitAcc(Tail(s), sep, Append(cur, Head(s)))

Split(s, sep) == SplitAcc(s, sep, <<>>)

\* strings.Contains
Contains(s, sub) ==
    \E i \in 0..(Len(s) - Len(sub)) : SubSeq(s, i + 1, i + Len(sub)) = sub

----------------------------------------------------------------------------
(* Program constants and pure functions *)

GitHub == "GitHub"
GitLab == "GitLab"

NIL == "<nil>"      \* a nil *string

sCheckout == <<"c", "h", "e", "c", "k", "o", "u", "t">>
sAdd == <<"a", "d", "d">>
sCommit == <<"c", "o", "m", "m", "i", "t">>
sBranch == <<"b", "r", "a", "n", "c", "h">>
sBranchD == <<"b", "r", "a", "n", "c", "h", " ", "-", "D">>
sRefsTags == <<"r", "e", "f", "s", "/", "t", "a", "g", "s", "/">>

\* faulty variant of gitOperations: the orphan branch is renamed before the
\* old main branch is deleted
gitOperationsRenameFirst(msg) == <<
    [desc |-> "Creating new orphan branch", args0 |-> sCheckout,
     line |-> "checkout --orphan temp_branch", arg |-> <<>>],
    [desc |-> "Staging all files", args0 |-> sAdd,
     line |-> "add -A", arg |-> <<>>],
    [desc |-> "Creating initial commit", args0 |-> sCommit,
     line |-> "commit -m", arg |-> <<msg>>],
    [desc |-> "Renaming branch to main", args0 |-> sBranch,
     line |-> "branch -m main", arg |-> <<>>],
    [desc |-> "Removing old main branch", args0 |-> sBranch,
     line |-> "branch -D main", arg |-> <<>>] >>

\* the gitOperations table: description, args[0], the command line as logged
\* and its variable argument
gitOperations(msg) == <<
    [desc |-> "Creating new orphan branch", args0 |-> sCheckout,
     line |-> "checkout --orphan temp_branch", arg |-> <<>>],
    [desc |-> "Staging all files", args0 |-> sAdd,
     line |-> "add -A", arg |-> <<>>],
    [desc |-> "Creating initial commit", args0 |-> sCommit,
     line |-> "commit -m", arg |-> <<msg>>],
    [desc |-> "Removing old main branch", args0 |-> sBranch,
     line |-> "branch -D main", arg |-> <<>>],
    [desc |-> "Renaming branch to main", args0 |-> sBranch,
     line |-> "branch -m main", arg |-> <<>>] >>

\* the loop's test for the one failure it means to let pass:
\* strings.Contains(op.args[0], "branch -D")
Tolerated(op) == Contains(op.args0, sBranchD)

\* faulty variant of cloneURL: the base URL is used for GitHub too
cloneURLAlwaysBase(ri) ==
    <<ri.GitLabURL, "/", ri.FullPath, "/", ri.RepoName, ".git">>

\* faulty variant of cloneURL: the token is put into the URL
cloneURLWithToken(ri) ==
    IF ri.Provider = GitHub
    THEN <<"https://", ri.Token, "@github.com/", ri.FullPath, "/", ri.RepoName, ".git">>
    ELSE <<ri.GitLabURL, "/", ri.FullPath, "/", ri.RepoName, ".git">>

\* the clone URL, as the pieces fmt.Sprintf joins
cloneURL(ri) ==
    IF ri.Provider = GitHub
    THEN <<"https://github.com/", ri.FullPath, "/", ri.RepoName, ".git">>
    ELSE <<ri.GitLabURL, "/", ri.FullPath, "/", ri.RepoName, ".git">>

\* faulty variant of GetGitTags: the output is split without being trimmed
GetGitTagsUntrimmed(output) ==
    LET split == Split(output, NL)
    IN  IF Len(split) = 1 /\ split[1] = <<>> THEN <<>> ELSE split

\* faulty variant of GetGitTags: the test for the single empty string is missing
GetGitTagsKeepingEmpty(output) == Split(TrimSpace(output), NL)

\* GetGitTags on a successful `git tag`
GetGitTags(output) ==
    LET split == Split(TrimSpace(output), NL)
    IN  IF Len(split) = 1 /\ split[1] = <<>> THEN <<>> ELSE split

\* the argument of the remote tag deletion: fmt.Sprintf("refs/tags/%s", tag)
RefOf(tag) == sRefsTags \o tag

\* what one ListReleases call with nil options returns: the first page
FirstPage(rels) ==
    IF Len(rels) <= PerPage THEN rels ELSE SubSeq(rels, 1, PerPage)

\* the key DeleteRelease is called with: the numeric ID on GitHub, the tag
\* name on GitLab
DeleteKey(provider, r) ==
    IF provider = GitHub THEN [id |-> r.ID, arg |-> <<>>]
    ELSE [id |-> 0, arg |-> r.TagName]

\* faulty variant of AfterLocalTags: the dry-run early return is missing
AfterLocalTagsIgnoringDryRun(dryRun, ts) ==
    IF Len(ts) > 0 THEN "remoteTags" ELSE "push"

\* faulty variant of AfterLocalTags: the remote tag loop is skipped
AfterLocalTagsSkippingRemote(dryRun, ts) ==
    IF dryRun THEN "checkpoint" ELSE "push"

\* where ResetRepo goes after local tag cleanup: the `if repoInfo.DryRun`
\* early return, else the remote tag loop (skipped when there are no tags)
AfterLocalTags(dryRun, ts) ==
    IF dryRun THEN "checkpoint"
    ELSE IF Len(ts) > 0 THEN "remoteTags" ELSE "push"

\* the provider switch after a successful force-push
Dispatch(provider) == IF provider = GitHub THEN "list" ELSE "glClient"

----------------------------------------------------------------------------
(* Environment: what the hosted repository and git can hand the program *)

\* `git tag` prints each tag name followed by a newline; with no tags it
\* prints nothing (blank output variants are included to exercise the
\* parser's special case)
TagLines(n) == Concat([i \in 1..n |-> TagNameOf(i) \o <<NL>>])

TagOutputs(n) ==
    IF n = 0 THEN {<<>>, <<NL>>, <<" ", NL>>} ELSE {TagLines(n)}

ReleaseNames(provider) == IF provider = GitHub THEN {"name", NIL} ELSE {"name"}

Releases(provider, n) ==
    { [i \in 1..n |-> [ID |-> i, Name |-> nm[i], TagName |-> TagNameOf(i)]] :
        nm \in [1..n -> ReleaseNames(provider)] }

RepoInfos ==
    { [Provider |-> p, FullPath |-> "owner", RepoName |-> "repo",
       Token |-> "token",
       GitLabURL |-> IF p = GitLab THEN "https://gitlab.com" ELSE "",
       DryRun |-> d] : p \in {GitHub, GitLab}, d \in BOOLEAN }

----------------------------------------------------------------------------
(* Initial states *)

\* main is not running / there was no earlier run
NoFlags == [none |-> TRUE]

NoPrev == [none |-> TRUE]

NoUi == [model |-> "none"]

NoOther == [pc |-> "none"]

\* exit status of a process that has not ended
Running == 0 - 1


Init ==
    /\ entry \in {"ResetRepo", "DeleteReleases"}
    /\ repoInfo \in RepoInfos
    /\ commitMessage = "Initial commit"
    /\ pc = IF entry = "ResetRepo" THEN "start" ELSE Dispatch(repoInfo.Provider)
    /\ opIdx = 1
    /\ tags = <<>>
    /\ releases = <<>>
    /\ err = "nil"
    /\ result = "Running"
    /\ log = <<>>
    /\ transcript = <<>>
    /\ \E n \in 0..MaxTags :
          /\ tagOutput \in (IF entry = "ResetRepo" THEN TagOutputs(n) ELSE {TagLines(n)})
          /\ \E m \in 0..MaxReleases : \E rels \in Releases(repoInfo.Provider, m) :
                remote = [history |-> "old",
                          tags |-> {TagNameOf(i) : i \in 1..n},
                          releases |-> rels]
    /\ remote0 = remote
    /\ wsExists \in BOOLEAN
    /\ cwd = "orig"
    /\ oslog = <<>>
    /\ flags = NoFlags
    /\ mainPc = "none"
    /\ exitCode = Running
    /\ uilog = <<>>
    /\ ui = NoUi
    /\ run = 1
    /\ prev = NoPrev
    /\ confirmed = FALSE
    /\ keys = <<>>
    /\ other = NoOther

----------------------------------------------------------------------------
(* Bookkeeping shared by the actions *)

OsCall(c, ok) == [call |-> c, ok |-> ok]

\* faulty variant of Chdir: the directory changes although the call failed
ChdirAlways(ok, from, to) == to

\* os.Chdir(dir): the working directory changes when the call succeeds
Chdir(ok, from, to) == IF ok THEN to ELSE from

\* faulty variant of RemoveAll: the directory is left in place
RemoveAllKeeping(ok, exists) == exists

\* os.RemoveAll(tmpPath): the directory is gone when the call succeeds
RemoveAll(ok, exists) == IF ok THEN FALSE ELSE exists

Cmd(c, a, i, ok) == [cmd |-> c, arg |-> a, id |-> i, ok |-> ok]

Ev(e, a) == [ev |-> e, arg |-> a]

\* a return of ResetRepo runs the deferred os.RemoveAll; the prepare steps
\* before the defer statement and a direct call of a release cleaner do not
ReturnPc == IF entry = "ResetRepo" THEN "defer" ELSE "done"

\* return fmt.Errorf(msg, ...)
Fail(msg, nextPc) ==
    /\ err' = msg
    /\ result' = "Fatal"
    /\ pc' = nextPc

\* return nil
Succeed ==
    /\ err' = "nil"
    /\ result' = "Success"
    /\ pc' = ReturnPc

\* a nil pointer dereference: the function never returns, deferred calls run
Panic ==
    /\ err' = "panic"
    /\ result' = "Panic"
    /\ pc' = ReturnPc

----------------------------------------------------------------------------
(* ResetRepo: workspace preparation *)

\* os.RemoveAll(tmpPath)
RemoveStale ==
    /\ entry = "ResetRepo" /\ pc = "start"
    /\ \E ok \in BOOLEAN :
          /\ oslog' = Append(oslog, OsCall("RemoveAll", ok))
          /\ IF ok
             THEN /\ pc' = "mkdir"
                  /\ UNCHANGED <<err, result>>
             ELSE Fail("failed to remove existing temporary directory", "done")
          /\ wsExists' = RemoveAll(ok, wsExists)
    /\ UNCHANGED <<outer, entry, repoInfo, commitMessage, opIdx, tags, releases, log,
                   transcript, tagOutput, remote, remote0, cwd>>

\* os.MkdirAll(tmpPath, 0755); the deferred removal is registered after it
MakeWorkspace ==
    /\ pc = "mkdir"
    /\ \E ok \in BOOLEAN :
          /\ oslog' = Append(oslog, OsCall("MkdirAll", ok))
          /\ IF ok
             THEN /\ wsExists' = TRUE
                  /\ pc' = "chdir"
                  /\ UNCHANGED <<err, result>>
             ELSE /\ Fail("failed to create temporary directory", "done")
                  /\ UNCHANGED wsExists
    /\ UNCHANGED <<outer, entry, repoInfo, commitMessage, opIdx, tags, releases, log,
                   transcript, tagOutput, remote, remote0, cwd>>

\* os.Chdir(tmpPath)
ChangeDir ==
    /\ pc = "chdir"
    /\ \E ok \in BOOLEAN :
          /\ oslog' = Append(oslog, OsCall("Chdir", ok))
          /\ cwd' = Chdir(ok, cwd, "ws")
          /\ IF ok
             THEN /\ pc' = "clone"
                  /\ UNCHANGED <<err, result>>
             ELSE Fail("failed to change to temporary directory", "defer")
    /\ UNCHANGED <<outer, entry, repoInfo, commitMessage, opIdx, tags, releases, log,
                   transcript, tagOutput, remote, remote0, wsExists>>

----------------------------------------------------------------------------
(* ResetRepo: clone and history rewrite *)

\* faulty variant of AfterClone: the clone error is dropped
AfterCloneIgnoringFailure(ok) == "rewrite"

\* where the run goes after `git clone`
AfterClone(ok) == IF ok THEN "rewrite" ELSE "defer"

\* git clone <url>, then os.Chdir(repoInfo.RepoName), whose error is dropped
Clone ==
    /\ pc = "clone"
    /\ \E ok \in BOOLEAN :
          /\ log' = Append(log, Cmd("clone", cloneURL(repoInfo), 0, ok))
          /\ transcript' = Append(transcript, Ev("Cloning repository", cloneURL(repoInfo)))
          /\ IF AfterClone(ok) = "rewrite"
             THEN /\ \E cd \in BOOLEAN :
                        /\ oslog' = Append(oslog, OsCall("Chdir repo", cd))
                        /\ cwd' = Chdir(cd, cwd, "repo")
                  /\ pc' = "rewrite"
                  /\ opIdx' = 1
                  /\ UNCHANGED <<err, result>>
             ELSE /\ Fail("failed to clone repository", AfterClone(ok))
                  /\ UNCHANGED <<cwd, opIdx, oslog>>
    /\ UNCHANGED <<outer, entry, repoInfo, commitMessage, tags, releases, tagOutput,
                   remote, remote0, wsExists>>

\* one iteration of the gitOperations loop
RewriteStep ==
    /\ pc = "rewrite"
    /\ LET ops == gitOperations(commitMessage)
           op  == ops[opIdx]
       IN  \E ok \in BOOLEAN :
              /\ log' = Append(log, Cmd(op.line, op.arg, 0, ok))
              /\ transcript' = Append(transcript, Ev("Executing", <<op.line>>))
              /\ IF ~ok /\ ~Tolerated(op)
                 THEN /\ Fail("failed to " \o op.desc, "defer")
                      /\ UNCHANGED opIdx
                 ELSE /\ IF opIdx < Len(ops)
                         THEN pc' = "rewrite" /\ opIdx' = opIdx + 1
                         ELSE pc' = "listTags" /\ opIdx' = 1
                      /\ UNCHANGED <<err, result>>
    /\ UNCHANGED <<outer, oslog, entry, repoInfo, commitMessage, tags, releases, tagOutput,
                   remote, remote0, wsExists, cwd>>

----------------------------------------------------------------------------
(* ResetRepo: tag cleanup, dry-run checkpoint, force-push *)

\* faulty variant of AfterTags: the error of the tag listing is dropped
AfterTagsIgnoringFailure(ok, dryRun, ts) ==
    IF Len(ts) > 0 THEN "localTags" ELSE AfterLocalTags(dryRun, ts)

\* where the run goes after GetGitTags: the error return, the local tag
\* loop, or past it when there are no tags
AfterTags(ok, dryRun, ts) ==
    IF ~ok THEN "defer"
    ELSE IF Len(ts) > 0 THEN "localTags"
    ELSE AfterLocalTags(dryRun, ts)

\* tags, err := GetGitTags()
ListTags ==
    /\ pc = "listTags"
    /\ \E ok \in BOOLEAN :
          /\ log' = Append(log, Cmd("tag", <<>>, 0, ok))
          /\ LET ts   == GetGitTags(tagOutput)
                 next == AfterTags(ok, repoInfo.DryRun, ts)
             IN  IF next # "defer"
                 THEN /\ tags' = ts
                      /\ transcript' = Append(transcript,
                            IF Len(ts) > 0 THEN Ev("Found tags to delete", <<Len(ts)>>)
                            ELSE Ev("No local tags found", <<>>))
                      /\ pc' = next
                      /\ UNCHANGED <<err, result>>
                 ELSE /\ Fail("failed to list tags", "defer")
                      /\ UNCHANGED <<tags, transcript>>
    /\ opIdx' = 1
    /\ UNCHANGED <<outer, oslog, entry, repoInfo, commitMessage, releases, tagOutput, remote,
                   remote0, wsExists, cwd>>

\* faulty variant of DeleteLocalTag: a failed deletion is returned as an error
DeleteLocalTagAbortingOnFailure ==
    /\ pc = "localTags"
    /\ LET tag == tags[opIdx]
       IN  \E ok \in BOOLEAN :
              /\ log' = Append(log, Cmd("tag -d", tag, 0, ok))
              /\ transcript' = Append(transcript, Ev("Removing local tag", tag))
              /\ IF ~ok
                 THEN /\ Fail("failed to delete local tag", "defer")
                      /\ UNCHANGED opIdx
                 ELSE /\ IF opIdx < Len(tags)
                         THEN pc' = "localTags" /\ opIdx' = opIdx + 1
                         ELSE pc' = AfterLocalTags(repoInfo.DryRun, tags) /\ opIdx' = 1
                      /\ UNCHANGED <<err, result>>
    /\ UNCHANGED <<outer, oslog, entry, repoInfo, commitMessage, tags, releases, tagOutput,
                   remote, remote0, wsExists, cwd>>

\* one iteration of the local tag loop: git tag -d <tag>
DeleteLocalTag ==
    /\ pc = "localTags"
    /\ LET tag == tags[opIdx]
       IN  \E ok \in BOOLEAN :
              /\ log' = Append(log, Cmd("tag -d", tag, 0, ok))
              /\ transcript' = transcript \o <<Ev("Removing local tag", tag)>>
                     \o (IF ok THEN <<>>
                         ELSE <<Ev("Warning: Failed to delete local tag", tag)>>)
    /\ IF opIdx < Len(tags)
       THEN pc' = "localTags" /\ opIdx' = opIdx + 1
       ELSE pc' = AfterLocalTags(repoInfo.DryRun, tags) /\ opIdx' = 1
    /\ UNCHANGED <<outer, oslog, entry, repoInfo, commitMessage, tags, releases, err, result,
                   tagOutput, remote, remote0, wsExists, cwd>>

\* the dry-run early return: report and return nil
DryRunCheckpoint ==
    /\ pc = "checkpoint"
    /\ transcript' = transcript
           \o (IF Len(tags) > 0 THEN <<Ev("Would delete remote tags", tags)>> ELSE <<>>)
           \o <<Ev("Would execute", <<"push -f origin main">>)>>
    /\ Succeed
    /\ UNCHANGED <<outer, oslog, entry, repoInfo, commitMessage, opIdx, tags, releases, log,
                   tagOutput, remote, remote0, wsExists, cwd>>

\* one iteration of the remote tag loop:
\* git push origin --delete refs/tags/<tag>
DeleteRemoteTag ==
    /\ pc = "remoteTags"
    /\ LET tag == tags[opIdx]
       IN  \E ok \in BOOLEAN :
              /\ log' = Append(log, Cmd("push origin --delete", RefOf(tag), 0, ok))
              /\ transcript' = Append(transcript,
                     IF ok THEN Ev("Deleted remote tag", tag)
                     ELSE Ev("Warning: Failed to delete remote tag", tag))
              /\ remote' = IF ok THEN [remote EXCEPT !.tags = @ \ {tag}] ELSE remote
    /\ IF opIdx < Len(tags)
       THEN pc' = "remoteTags" /\ opIdx' = opIdx + 1
       ELSE pc' = "push" /\ opIdx' = 1
    /\ UNCHANGED <<outer, oslog, entry, repoInfo, commitMessage, tags, releases, err, result,
                   tagOutput, remote0, wsExists, cwd>>

\* faulty variant of AfterPush: the push error is dropped
AfterPushIgnoringFailure(ok, provider) == Dispatch(provider)

\* where the run goes after `git push -f origin main`
AfterPush(ok, provider) == IF ok THEN Dispatch(provider) ELSE "defer"

\* git push -f origin main, then the provider switch
ForcePush ==
    /\ pc = "push"
    /\ \E ok \in BOOLEAN :
          /\ log' = Append(log, Cmd("push -f origin main", <<>>, 0, ok))
          /\ remote' = IF ok THEN [remote EXCEPT !.history = "new"] ELSE remote
          /\ IF AfterPush(ok, repoInfo.Provider) = "defer"
             THEN Fail("failed to push changes", "defer")
             ELSE /\ pc' = AfterPush(ok, repoInfo.Provider)
                  /\ UNCHANGED <<err, result>>
    /\ UNCHANGED <<outer, oslog, entry, repoInfo, commitMessage, opIdx, tags, releases,
                   transcript, tagOutput, remote0, wsExists, cwd>>

\* the deferred os.RemoveAll(tmpPath); its error is dropped
DeferredRemoveAll ==
    /\ pc = "defer"
    /\ \E ok \in BOOLEAN :
          /\ oslog' = Append(oslog, OsCall("deferred RemoveAll", ok))
          /\ wsExists' = RemoveAll(ok, wsExists)
    /\ pc' = "done"
    /\ UNCHANGED <<outer, entry, repoInfo, commitMessage, opIdx, tags, releases, err,
                   result, log, transcript, tagOutput, remote, remote0, cwd>>

----------------------------------------------------------------------------
(* DeleteGitHubReleases / DeleteGitLabReleases *)

\* newGitLabClient(token, baseURL)
NewGitLabClient ==
    /\ pc = "glClient"
    /\ \E ok \in BOOLEAN :
          IF ok
          THEN pc' = "list" /\ UNCHANGED <<err, result>>
          ELSE Fail("failed to create GitLab client", ReturnPc)
    /\ UNCHANGED <<outer, oslog, entry, repoInfo, commitMessage, opIdx, tags, releases, log,
                   transcript, tagOutput, remote, remote0, wsExists, cwd>>

\* faulty variant of AfterList: the listing error is dropped
AfterListIgnoringFailure(ok, rels, dryRun) ==
    IF Len(rels) = 0 THEN "return"
    ELSE IF dryRun THEN "reportReleases"
    ELSE "deleteReleases"

\* where a cleaner goes after ListReleases
AfterList(ok, rels, dryRun) ==
    IF ~ok THEN "listFailed"
    ELSE IF Len(rels) = 0 THEN "return"
    ELSE IF dryRun THEN "reportReleases"
    ELSE "deleteReleases"

\* client.Repositories.ListReleases(ctx, owner, repo, nil) on GitHub,
\* client.Releases.ListReleases(fullPath, nil) on GitLab
ListReleases(provider) ==
    /\ pc = "list" /\ repoInfo.Provider = provider
    /\ \E ok \in BOOLEAN :
          LET rels == FirstPage(remote.releases)
              next == AfterList(ok, rels, repoInfo.DryRun)
          IN  /\ log' = Append(log, Cmd("ListReleases",
                                        <<repoInfo.FullPath, "/", repoInfo.RepoName>>, 0, ok))
              /\ CASE next = "listFailed" ->
                        /\ Fail("failed to list releases", ReturnPc)
                        /\ UNCHANGED <<releases, transcript>>
                   [] next = "return" ->
                        /\ releases' = rels
                        /\ transcript' = Append(transcript, Ev("No releases found to delete", <<>>))
                        /\ Succeed
                   [] OTHER ->
                        /\ releases' = rels
                        /\ transcript' = Append(transcript, Ev("Found releases", <<Len(rels)>>))
                        /\ pc' = next
                        /\ UNCHANGED <<err, result>>
    /\ opIdx' = 1
    /\ UNCHANGED <<outer, oslog, entry, repoInfo, commitMessage, tags, tagOutput, remote,
                   remote0, wsExists, cwd>>

\* the loop exit shared by the two release loops: next iteration or return nil
NextRelease ==
    IF opIdx < Len(releases)
    THEN /\ pc' = pc
         /\ opIdx' = opIdx + 1
         /\ UNCHANGED <<err, result>>
    ELSE /\ Succeed
         /\ UNCHANGED opIdx

\* one iteration of the dry-run loop: print the release; the GitHub variant
\* dereferences release.Name
ReportRelease(provider) ==
    /\ pc = "reportReleases" /\ repoInfo.Provider = provider
    /\ LET r == releases[opIdx]
       IN  IF provider = GitHub /\ r.Name = NIL
           THEN /\ Panic
                /\ UNCHANGED <<opIdx, transcript>>
           ELSE /\ transcript' = Append(transcript, Ev("Would delete release", <<r>>))
                /\ NextRelease
    /\ UNCHANGED <<outer, oslog, entry, repoInfo, commitMessage, tags, releases, log,
                   tagOutput, remote, remote0, wsExists, cwd>>

\* one iteration of the delete loop: DeleteRelease, then the warning or the
\* success line; the GitHub success line dereferences release.Name
DeleteRelease(provider) ==
    /\ pc = "deleteReleases" /\ repoInfo.Provider = provider
    /\ LET r   == releases[opIdx]
           key == DeleteKey(provider, r)
       IN  \E ok \in BOOLEAN :
              /\ log' = Append(log, Cmd("DeleteRelease", key.arg, key.id, ok))
              /\ remote' = IF ok
                           THEN [remote EXCEPT !.releases =
                                    SelectSeq(@, LAMBDA x : x.ID # r.ID)]
                           ELSE remote
              /\ IF ok /\ provider = GitHub /\ r.Name = NIL
                 THEN /\ Panic
                      /\ UNCHANGED <<opIdx, transcript>>
                 ELSE /\ transcript' = Append(transcript,
                             IF ok THEN Ev("Deleted release", <<r>>)
                             ELSE Ev("Warning: Failed to delete release", <<r>>))
                      /\ NextRelease
    /\ UNCHANGED <<outer, oslog, entry, repoInfo, commitMessage, tags, releases, tagOutput,
                   remote0, wsExists, cwd>>

----------------------------------------------------------------------------
(* Specification *)

Next ==
    \/ RemoveStale
    \/ MakeWorkspace
    \/ ChangeDir
    \/ Clone
    \/ RewriteStep
    \/ ListTags
    \/ DeleteLocalTag
    \/ DryRunCheckpoint
    \/ DeleteRemoteTag
    \/ ForcePush
    \/ NewGitLabClient
    \/ ListReleases(GitHub)
    \/ ListReleases(GitLab)
    \/ ReportRelease(GitHub)
    \/ ReportRelease(GitLab)
    \/ DeleteRelease(GitHub)
    \/ DeleteRelease(GitLab)
    \/ DeferredRemoveAll

Spec == Init /\ [][Next]_vars

----------------------------------------------------------------------------
(* Vocabulary of the properties *)

IsRun == entry = "ResetRepo"

Terminal == pc = "done"

\* positions in the log of a command
At(c) == {i \in DOMAIN log : log[i].cmd = c}

Failed(c) == {i \in At(c) : ~log[i].ok}

Issued(c) == At(c) # {}

\* the arguments, in order of issue, of one kind of command
ArgsOf(c) ==
    LET sel == SelectSeq(log, LAMBDA e : e.cmd = c)
    IN  [i \in 1..Len(sel) |-> sel[i].arg]

KeysOf(c) ==
    LET sel == SelectSeq(log, LAMBDA e : e.cmd = c)
    IN  [i \in 1..Len(sel) |-> [id |-> sel[i].id, arg |-> sel[i].arg]]

IsPrefix(s, t) == Len(s) <= Len(t) /\ s = SubSeq(t, 1, Len(s))

Reported(e) == \E i \in DOMAIN transcript : transcript[i].ev = e

RemoteMutating == {"push origin --delete", "push -f origin main", "DeleteRelease"}

TagListed == \E i \in At("tag") : log[i].ok

ReleasesListed == \E i \in At("ListReleases") : log[i].ok

PrepErrors == {"failed to remove existing temporary directory",
               "failed to create temporary directory",
               "failed to change to temporary directory"}

----------------------------------------------------------------------------
(* C1 *)

FatalSteps == {"clone", "checkout --orphan temp_branch", "add -A", "commit -m",
               "branch -m main", "push -f origin main", "ListReleases"}

\* C1: in ResetRepo a failed fatal step (workspace preparation, clone, a
\* rewrite sub-step other than old-branch deletion, force-push, release
\* listing) is the last thing the run does: the run is Fatal, it only has the
\* deferred cleanup left, and no command or API call follows the failure; a
\* failed clone is the only command of its run.
C1_FatalStops ==
    IsRun =>
      /\ \A i \in DOMAIN log :
            (log[i].cmd \in FatalSteps /\ ~log[i].ok)
                => (i = Len(log) /\ result = "Fatal" /\ pc \in {"defer", "done"})
      /\ err \in PrepErrors
            => (log = <<>> /\ result = "Fatal" /\ pc \in {"defer", "done"})
      /\ (log # <<>> /\ ~log[1].ok) => Len(log) = 1

C1_Witness ==
    /\ IsRun /\ Terminal /\ result = "Fatal"
    /\ Len(log) = 1 /\ log[1].cmd = "clone" /\ ~log[1].ok

----------------------------------------------------------------------------
(* C2 *)

\* C2: a dry run of ResetRepo never issues a remote tag deletion, a
\* force-push or a release deletion and leaves the hosted repository as it
\* was, whatever the commands' outcomes; once the tag listing has succeeded
\* (nothing fatal before the checkpoint) it ends in Success.
C2_DryRunNoRemoteMutation ==
    (IsRun /\ repoInfo.DryRun) =>
      /\ \A i \in DOMAIN log : log[i].cmd \notin RemoteMutating
      /\ remote = remote0
      /\ (Terminal /\ TagListed) => (result = "Success" /\ err = "nil")

C2_Witness ==
    /\ IsRun /\ repoInfo.DryRun /\ Terminal /\ result = "Success"
    /\ Len(tags) >= 2
    /\ Failed("tag -d") # {}

----------------------------------------------------------------------------
(* C3 *)

\* C3: a failure of `git branch -D main` is tolerated: the run is not Fatal
\* because of it and, once finished, has gone on to `git branch -m main`.
C3_BranchDeleteTolerated ==
    IsRun =>
      \A i \in Failed("branch -D main") :
          /\ ~(i = Len(log) /\ result = "Fatal")
          /\ Terminal => Issued("branch -m main")

----------------------------------------------------------------------------
(* C4 *)

\* C4: in a non-dry run the remote tag deletions issued are, in order, those
\* of the enumerated tags, one each; whichever of them fail, all of them have
\* been issued by the time the run is at the force-push, and a run whose tag
\* listing succeeded does issue the force-push.
C4_RemoteTagsAllAttempted ==
    (IsRun /\ ~repoInfo.DryRun) =>
      LET want == [i \in 1..Len(tags) |-> sRefsTags \o tags[i]]
          got  == ArgsOf("push origin --delete")
      IN  /\ IsPrefix(got, want)
          /\ (pc = "push" \/ Issued("push -f origin main")) => got = want
          /\ (Terminal /\ TagListed) => Issued("push -f origin main")

C4_Witness ==
    /\ IsRun /\ ~repoInfo.DryRun
    /\ Len(tags) = 3
    /\ Cardinality(At("push origin --delete")) = 3
    /\ Cardinality(Failed("push origin --delete")) = 1
    /\ Issued("push -f origin main")

----------------------------------------------------------------------------
(* C5 *)

\* the tags whose remote deletion succeeded
DeletedRemoteTags ==
    {t \in remote0.tags :
        \E i \in At("push origin --delete") : log[i].arg = sRefsTags \o t /\ log[i].ok}

\* C5 as stated: a failed force-push ends the run in Fatal with the hosted
\* repository (history, tags, releases) exactly as before the run.
C5_PushFailureLeavesRemoteUntouched ==
    IsRun =>
      \A i \in Failed("push -f origin main") :
          result = "Fatal" /\ remote = remote0

\* C5, amended: a failed force-push ends the run in Fatal with the hosted
\* branch history and releases as before the run; the hosted tags are those
\* from before the run less the ones whose remote deletion succeeded in
\* RemoteTagCleanup, which runs before the push.
C5_PushFailureKeepsHistoryAndReleases ==
    IsRun =>
      \A i \in Failed("push -f origin main") :
          /\ result = "Fatal"
          /\ err = "failed to push changes"
          /\ remote.history = remote0.history
          /\ remote.releases = remote0.releases
          /\ remote.tags = remote0.tags \ DeletedRemoteTags

C5_Witness ==
    /\ IsRun /\ Terminal
    /\ Failed("push -f origin main") # {}
    /\ remote.tags # remote0.tags
    /\ remote0.releases # <<>>

----------------------------------------------------------------------------
(* C6 *)

\* C6: when listing releases fails, or the GitLab client cannot be built,
\* the cleaner returns an error and has made no DeleteRelease call; this
\* holds for both providers, called from ResetRepo or directly.
C6_ListFailureDeletesNothing ==
    (Failed("ListReleases") # {}
        \/ err \in {"failed to list releases", "failed to create GitLab client"})
      => /\ result = "Fatal"
         /\ err \in {"failed to list releases", "failed to create GitLab client"}
         /\ ~Issued("DeleteRelease")
         /\ remote.releases = remote0.releases

C6_Witness ==
    /\ Terminal /\ ~repoInfo.DryRun
    /\ Failed("ListReleases") # {}
    /\ Len(remote0.releases) >= 2

----------------------------------------------------------------------------
(* C7 *)

\* C7: in a non-dry run, once the listing has succeeded and the cleaner is
\* done, one DeleteRelease call has been made for every listed release, in
\* list order, whichever of them failed, and the cleaner returned nil.
C7_EveryListedReleaseDeleted ==
    (~repoInfo.DryRun /\ Terminal /\ ReleasesListed) =>
      /\ KeysOf("DeleteRelease")
            = [i \in 1..Len(releases) |-> DeleteKey(repoInfo.Provider, releases[i])]
      /\ err = "nil"
      /\ result = "Success"

----------------------------------------------------------------------------
(* C8 *)

\* C8: the local tag deletions issued are, in order, those of the enumerated
\* tags, one each; whichever of them fail, all have been issued when the run
\* is past LocalTagCleanup, and a run whose tag listing succeeded gets to the
\* dry-run checkpoint (it reports the dry run or goes on to the force-push);
\* on a repository without tags no `tag -d` is issued and the run proceeds
\* the same way.
C8_LocalTagsAllAttempted ==
    IsRun =>
      LET got == ArgsOf("tag -d")
          n   == Cardinality(remote0.tags)
      IN  /\ IsPrefix(got, tags)
          /\ Len(got) <= n
          /\ (TagListed /\ pc # "localTags")
                => (got = tags /\ Len(tags) = n)
          /\ (TagListed /\ Terminal)
                => IF repoInfo.DryRun THEN Reported("Would execute")
                   ELSE Issued("push -f origin main")

C8_Witness ==
    /\ IsRun /\ Terminal
    /\ Len(tags) = 3
    /\ Cardinality(Failed("tag -d")) = 2
    /\ Cardinality(At("tag -d")) = 3

\* the zero-tag case of C8
C8_WitnessNoTags ==
    /\ IsRun /\ Terminal /\ TagListed
    /\ tagOutput = <<" ", NL>>
    /\ tags = <<>> /\ ~Issued("tag -d")

----------------------------------------------------------------------------
(* C9 *)

\* the one order in which a run may issue its commands and API calls
FullOrder ==
    <<[cmd |-> "clone", arg |-> cloneURL(repoInfo), id |-> 0],
      [cmd |-> "checkout --orphan temp_branch", arg |-> <<>>, id |-> 0],
      [cmd |-> "add -A", arg |-> <<>>, id |-> 0],
      [cmd |-> "commit -m", arg |-> <<commitMessage>>, id |-> 0],
      [cmd |-> "branch -D main", arg |-> <<>>, id |-> 0],
      [cmd |-> "branch -m main", arg |-> <<>>, id |-> 0],
      [cmd |-> "tag", arg |-> <<>>, id |-> 0]>>
    \o [i \in 1..Len(tags) |-> [cmd |-> "tag -d", arg |-> tags[i], id |-> 0]]
    \o (IF repoInfo.DryRun THEN <<>>
        ELSE [i \in 1..Len(tags) |->
                 [cmd |-> "push origin --delete", arg |-> sRefsTags \o tags[i], id |-> 0]]
             \o <<[cmd |-> "push -f origin main", arg |-> <<>>, id |-> 0],
                  [cmd |-> "ListReleases",
                   arg |-> <<repoInfo.FullPath, "/", repoInfo.RepoName>>, id |-> 0]>>
             \o [i \in 1..Len(releases) |->
                    [cmd |-> "DeleteRelease",
                     arg |-> IF repoInfo.Provider = GitLab THEN releases[i].TagName ELSE <<>>,
                     id |-> IF repoInfo.Provider = GitHub THEN releases[i].ID ELSE 0]])

\* C9: the commands and API calls of a ResetRepo run are a prefix of the
\* fixed order (clone, the five rewrite commands, tag listing, local tag
\* deletions, then in a non-dry run remote tag deletions, force-push, release
\* listing, release deletions), nothing repeated; every remote tag deletion
\* comes before the force-push and every release API call after a force-push
\* that succeeded.
C9_FixedOrder ==
    IsRun =>
      /\ IsPrefix([i \in 1..Len(log) |->
                      [cmd |-> log[i].cmd, arg |-> log[i].arg, id |-> log[i].id]],
                  FullOrder)
      /\ \A i \in At("push origin --delete") : \A j \in At("push -f origin main") : i < j
      /\ \A i \in At("ListReleases") \cup At("DeleteRelease") :
            \E j \in At("push -f origin main") : j < i /\ log[j].ok

C9_Witness ==
    /\ IsRun /\ Terminal /\ result = "Success"
    /\ Len(tags) >= 2
    /\ Cardinality(At("push origin --delete")) >= 2
    /\ Cardinality(At("DeleteRelease")) >= 2

----------------------------------------------------------------------------
(* C10 *)

\* C10: a dry run of ResetRepo that ends in Success on a repository with tags
\* and at least one release has reported the tags it would delete remotely and
\* the releases it would delete.
C10_DryRunReportsReleases ==
    (IsRun /\ repoInfo.DryRun /\ Terminal /\ result = "Success"
        /\ tags # <<>> /\ remote0.releases # <<>>)
      => /\ Reported("Would delete remote tags")
         /\ Reported("Would delete release")

----------------------------------------------------------------------------
(* C11 *)

LastOsCall == oslog[Len(oslog)]

RemovalFailed ==
    \E i \in DOMAIN oslog :
        oslog[i].call \in {"RemoveAll", "deferred RemoveAll"} /\ ~oslog[i].ok

----------------------------------------------------------------------------
(* C12 *)

\* C12: when ResetRepo has returned, the working directory is the one from
\* before the call or a directory that exists ("ws" is the workspace, "repo"
\* the clone inside it).
C12_CwdNotDangling ==
    (IsRun /\ Terminal) => (cwd = "orig" \/ wsExists)

----------------------------------------------------------------------------
(* main: command line, validation, RepoInfo *)

MainMaxTags == 1        \* tags on the hosted repository in runs of main
MainMaxReleases == 1    \* releases on the hosted repository in runs of main
MaxInput == 2           \* characters typed into the commit message prompt

Upper == <<"A", "B", "C", "D", "E", "F", "G", "H", "I", "J", "K", "L", "M",
           "N", "O", "P", "Q", "R", "S", "T", "U", "V", "W", "X", "Y", "Z">>
Lower == <<"a", "b", "c", "d", "e", "f", "g", "h", "i", "j", "k", "l", "m",
           "n", "o", "p", "q", "r", "s", "t", "u", "v", "w", "x", "y", "z">>

\* strings.ToLower
ToLower(s) ==
    [i \in 1..Len(s) |->
        IF \E k \in 1..26 : Upper[k] = s[i]
        THEN Lower[CHOOSE k \in 1..26 : Upper[k] = s[i]]
        ELSE s[i]]

\* strings.Join
RECURSIVE Join(_, _)
Join(parts, sep) ==
    IF parts = <<>> THEN <<>>
    ELSE IF Len(parts) = 1 THEN parts[1]
    ELSE parts[1] \o sep \o Join(Tail(parts), sep)

sGithub == <<"g", "i", "t", "h", "u", "b">>
sGitlab == <<"g", "i", "t", "l", "a", "b">>

\* const defaultCommitMsg
defaultCommitMsg ==
    <<"I", "n", "i", "t", "i", "a", "l", " ", "c", "o", "m", "m", "i", "t">>

\* command lines: -r values with zero to three segments, some of them empty
RepoPaths ==
    { <<>>, <<"r">>, <<"o", "/", "r">>, <<"g", "/", "s", "/", "r">>,
      <<"o", "/">>, <<"/", "r">> }

Providers == { sGithub, <<"G", "i", "t", "L", "a", "b">>, <<"s", "v", "n">> }

FlagSets ==
    [ ShowVersion : BOOLEAN, RepoPath : RepoPaths, Token : {"", "token"},
      Provider : Providers, GitLabURL : {"https://gitlab.com"},
      DryRun : BOOLEAN, NoInteractive : BOOLEAN,
      CommitMsg : {<<>>, <<"m">>} ]

\* var repoInfo RepoInfo
ZeroRepoInfo ==
    [Provider |-> GitHub, FullPath |-> <<>>, RepoName |-> <<>>, Token |-> "",
     GitLabURL |-> "", DryRun |-> FALSE]

\* faulty variant of ConfigError: the token is not required
ConfigErrorWithoutToken(f) ==
    LET parts == Split(f.RepoPath, "/")
    IN  IF f.RepoPath = <<>> THEN "Missing required arguments"
        ELSE IF Len(parts) < 2 THEN "Invalid repository format"
        ELSE IF ToLower(f.Provider) \notin {sGithub, sGitlab} THEN "Invalid provider"
        ELSE "none"

\* the three checks of main that end in os.Exit(1), in the order made
ConfigError(f) ==
    LET parts == Split(f.RepoPath, "/")
    IN  IF f.RepoPath = <<>> \/ f.Token = "" THEN "Missing required arguments"
        ELSE IF Len(parts) < 2 THEN "Invalid repository format"
        ELSE IF ToLower(f.Provider) \notin {sGithub, sGitlab} THEN "Invalid provider"
        ELSE "none"

\* faulty variant of BuildRepoInfo: the owner path is the first segment only
BuildRepoInfoFirstSegment(f) ==
    LET parts == Split(f.RepoPath, "/")
        gl    == ToLower(f.Provider) = sGitlab
    IN  [Provider |-> IF gl THEN GitLab ELSE GitHub,
         FullPath |-> parts[1],
         RepoName |-> parts[Len(parts)],
         Token |-> f.Token,
         GitLabURL |-> IF gl THEN f.GitLabURL ELSE "",
         DryRun |-> f.DryRun]

\* the RepoInfo main builds from flags that passed the checks
BuildRepoInfo(f) ==
    LET parts == Split(f.RepoPath, "/")
        gl    == ToLower(f.Provider) = sGitlab
    IN  [Provider |-> IF gl THEN GitLab ELSE GitHub,
         FullPath |-> Join(SubSeq(parts, 1, Len(parts) - 1), <<"/">>),
         RepoName |-> parts[Len(parts)],
         Token |-> f.Token,
         GitLabURL |-> IF gl THEN f.GitLabURL ELSE "",
         DryRun |-> f.DryRun]

\* faulty variant of InitialMessage: -n without -m leaves the message empty
InitialMessageWithoutDefault(f) == f.CommitMsg

\* the commit message before any prompt: the -m value, else the default in
\* non-interactive mode, else still empty
InitialMessage(f) ==
    IF f.CommitMsg # <<>> THEN f.CommitMsg
    ELSE IF f.NoInteractive THEN defaultCommitMsg
    ELSE <<>>

----------------------------------------------------------------------------
(* main: the two prompt models *)

ConfirmKeys == {"y", "Y", "n", "N", "q", "Q", "esc", "ctrl+c", "enter", "x"}

Runes == {"a", " "}

CommitKeys == Runes \cup {"enter", "esc", "ctrl+c", "backspace"}

\* ConfirmModel{Question: question}
InitialConfirmModel ==
    [model |-> "confirm", Value |-> <<>>, Done |-> FALSE, Answer |-> FALSE,
     Quit |-> FALSE]

\* InitialCommitModel()
InitialCommitModel ==
    [model |-> "commit", Value |-> <<>>, Done |-> FALSE, Answer |-> FALSE,
     Quit |-> FALSE]

\* faulty variant of ConfirmUpdate: enter confirms
ConfirmUpdateEnterConfirms(m, key) ==
    IF key \in {"y", "Y", "enter"}
    THEN [m EXCEPT !.Done = TRUE, !.Answer = TRUE, !.Quit = TRUE]
    ELSE IF key \in {"n", "N", "q", "Q", "esc", "ctrl+c"}
    THEN [m EXCEPT !.Done = TRUE, !.Answer = FALSE, !.Quit = TRUE]
    ELSE m

\* ConfirmModel.Update on a key
ConfirmUpdate(m, key) ==
    IF key \in {"y", "Y"}
    THEN [m EXCEPT !.Done = TRUE, !.Answer = TRUE, !.Quit = TRUE]
    ELSE IF key \in {"n", "N", "q", "Q", "esc", "ctrl+c"}
    THEN [m EXCEPT !.Done = TRUE, !.Answer = FALSE, !.Quit = TRUE]
    ELSE m

\* faulty variant of CommitUpdate: enter is accepted on an empty input
CommitUpdateEnterAlwaysDone(m, key) ==
    IF key = "enter"
    THEN [m EXCEPT !.Done = TRUE, !.Quit = TRUE]
    ELSE IF key \in {"esc", "ctrl+c"} THEN [m EXCEPT !.Quit = TRUE]
    ELSE IF key = "backspace"
    THEN [m EXCEPT !.Value = SubSeq(@, 1, Len(@) - 1)]
    ELSE [m EXCEPT !.Value = Append(@, key)]

\* CommitModel.Update on a key; keys it does not handle go to the text input
CommitUpdate(m, key) ==
    IF key = "enter"
    THEN IF m.Value # <<>> THEN [m EXCEPT !.Done = TRUE, !.Quit = TRUE] ELSE m
    ELSE IF key \in {"esc", "ctrl+c"} THEN [m EXCEPT !.Quit = TRUE]
    ELSE IF key = "backspace"
    THEN [m EXCEPT !.Value = SubSeq(@, 1, Len(@) - 1)]
    ELSE [m EXCEPT !.Value = Append(@, key)]

\* what PromptCommitMessage returns for the final model
PromptResult(m) == IF ~m.Done THEN <<>> ELSE m.Value

----------------------------------------------------------------------------
(* main: the steps *)

\* what main leaves alone while it prompts
resetState == <<entry, opIdx, tags, releases, err, result, log, transcript,
                tagOutput, remote, remote0, wsExists, cwd, oslog, flags, run, prev,
                other, keys>>

\* os.Exit(code) after printing the given lines
Exit(code, lines) ==
    /\ exitCode' = code
    /\ mainPc' = "exited"
    /\ uilog' = uilog \o lines

\* ResetRepo(repoInfo, commitMessage)
Invoke(msg) ==
    /\ commitMessage' = msg
    /\ pc' = "start"
    /\ mainPc' = "reset"
    /\ ui' = NoUi
    /\ UNCHANGED exitCode

\* main up to its first prompt: parseFlags, the checks, RepoInfo, the commit
\* message from the flags, and in non-interactive mode the call of ResetRepo
MainStart ==
    /\ mainPc = "main"
    /\ IF flags.ShowVersion
       THEN /\ Exit(0, <<"GoresetIT version">>)
            /\ UNCHANGED <<repoInfo, commitMessage, pc, ui>>
       ELSE IF ConfigError(flags) # "none"
       THEN /\ Exit(1, <<ConfigError(flags)>>)
            /\ UNCHANGED <<repoInfo, commitMessage, pc, ui>>
       ELSE /\ repoInfo' = BuildRepoInfo(flags)
            /\ IF ~flags.NoInteractive
               THEN /\ commitMessage' = InitialMessage(flags)
                    /\ mainPc' = "confirm"
                    /\ ui' = InitialConfirmModel
                    /\ uilog' = Append(uilog, "confirmation prompt")
                    /\ UNCHANGED <<pc, exitCode>>
               ELSE /\ Invoke(InitialMessage(flags))
                    /\ uilog' = Append(uilog, "no interactive confirmation requested")
    /\ UNCHANGED <<confirmed, resetState>>

\* faulty variant of Proceeds: main goes on whatever the answer
ProceedsRegardless(answer) == TRUE

\* main's test of what PromptConfirmation returned: `if !confirmed` exits
Proceeds(answer) == answer

\* a key in the confirmation prompt; on quit PromptConfirmation returns the
\* answer and main exits, prompts for the message or calls ResetRepo
ConfirmKey ==
    /\ mainPc = "confirm"
    /\ \E key \in ConfirmKeys :
          LET m == ConfirmUpdate(ui, key)
          IN  IF ~m.Quit
              THEN /\ ui' = m
                   /\ UNCHANGED <<commitMessage, pc, mainPc, exitCode, uilog, confirmed>>
              ELSE /\ confirmed' = m.Answer
                   /\ IF ~Proceeds(m.Answer)
                      THEN /\ Exit(0, <<"Operation cancelled by user">>)
                           /\ ui' = m
                           /\ UNCHANGED <<commitMessage, pc>>
                      ELSE IF commitMessage = <<>>
                      THEN /\ mainPc' = "message"
                           /\ ui' = InitialCommitModel
                           /\ uilog' = Append(uilog, "commit message prompt")
                           /\ UNCHANGED <<commitMessage, pc, exitCode>>
                      ELSE /\ Invoke(commitMessage)
                           /\ UNCHANGED uilog
    /\ UNCHANGED <<repoInfo, resetState>>

\* the confirmation program fails
ConfirmError ==
    /\ mainPc = "confirm"
    /\ Exit(1, <<"Error during confirmation">>)
    /\ UNCHANGED <<repoInfo, commitMessage, pc, ui, confirmed, resetState>>

\* a key in the commit message prompt; on quit PromptCommitMessage returns
\* and main exits on an empty message or calls ResetRepo
CommitKey ==
    /\ mainPc = "message"
    /\ \E key \in CommitKeys :
          /\ key \in Runes => Len(ui.Value) < MaxInput
          /\ LET m == CommitUpdate(ui, key)
             IN  IF ~m.Quit
                 THEN /\ ui' = m
                      /\ UNCHANGED <<commitMessage, pc, mainPc, exitCode, uilog>>
                 ELSE IF PromptResult(m) = <<>>
                 THEN /\ Exit(0, <<"Operation cancelled by user">>)
                      /\ ui' = m
                      /\ UNCHANGED <<commitMessage, pc>>
                 ELSE /\ Invoke(PromptResult(m))
                      /\ UNCHANGED uilog
    /\ UNCHANGED <<repoInfo, confirmed, resetState>>

\* the commit message program fails
CommitError ==
    /\ mainPc = "message"
    /\ Exit(1, <<"Error getting commit message">>)
    /\ UNCHANGED <<repoInfo, commitMessage, pc, ui, confirmed, resetState>>

\* ResetRepo is over: the error exit, the completion messages, or the crash
\* of a panic that nothing recovers
MainFinish ==
    /\ mainPc = "reset" /\ pc = "done"
    /\ CASE result = "Fatal" -> Exit(1, <<"Error:">>)
         [] result = "Panic" -> Exit(2, <<>>)
         [] OTHER ->
              Exit(0, IF flags.DryRun
                      THEN <<"Dry run completed. No changes were pushed to remote.">>
                      ELSE <<"Repository has been reset",
                             "All tags and releases have been deleted.">>)
    /\ UNCHANGED <<repoInfo, commitMessage, pc, ui, confirmed, resetState>>

\* a run of the program: main with its command line, on a small repository
InitMain ==
    /\ entry = "ResetRepo"
    /\ flags \in FlagSets
    /\ mainPc = "main"
    /\ repoInfo = ZeroRepoInfo
    /\ commitMessage = <<>>
    /\ pc = "idle"
    /\ opIdx = 1
    /\ tags = <<>>
    /\ releases = <<>>
    /\ err = "nil"
    /\ result = "Running"
    /\ log = <<>>
    /\ transcript = <<>>
    /\ \E n \in 0..MainMaxTags :
          /\ tagOutput = TagLines(n)
          /\ \E m \in 0..MainMaxReleases :
             \E rels \in Releases(IF ToLower(flags.Provider) = sGithub
                                  THEN GitHub ELSE GitLab, m) :
                remote = [history |-> "old",
                          tags |-> {TagNameOf(i) : i \in 1..n},
                          releases |-> rels]
    /\ remote0 = remote
    /\ wsExists = FALSE
    /\ cwd = "orig"
    /\ oslog = <<>>
    /\ exitCode = Running
    /\ uilog = <<>>
    /\ ui = NoUi
    /\ run = 1
    /\ prev = NoPrev
    /\ confirmed = FALSE
    /\ keys = <<>>
    /\ other = NoOther

NextMain ==
    \/ MainStart
    \/ ConfirmKey
    \/ ConfirmError
    \/ CommitKey
    \/ CommitError
    \/ MainFinish
    \/ RemoveStale
    \/ MakeWorkspace
    \/ ChangeDir
    \/ Clone
    \/ RewriteStep
    \/ ListTags
    \/ DeleteLocalTag
    \/ DryRunCheckpoint
    \/ DeleteRemoteTag
    \/ ForcePush
    \/ NewGitLabClient
    \/ ListReleases(GitHub)
    \/ ListReleases(GitLab)
    \/ DeleteRelease(GitHub)
    \/ DeleteRelease(GitLab)
    \/ DeferredRemoveAll

SpecMain == InitMain /\ [][NextMain]_vars

----------------------------------------------------------------------------
(* Vocabulary of the properties about main *)

Exited == mainPc = "exited"

\* ResetRepo has been called
Invoked == pc # "idle"

Shown(line) == \E i \in DOMAIN uilog : uilog[i] = line

Prompted == Shown("confirmation prompt") \/ Shown("commit message prompt")

\* nothing outside the program has been touched
NoEffects == ~Invoked /\ oslog = <<>> /\ log = <<>> /\ remote = remote0

Completion == {"Dry run completed. No changes were pushed to remote.",
               "Repository has been reset",
               "All tags and releases have been deleted."}

----------------------------------------------------------------------------
(* C13 *)

\* C13: whatever -m, -n and the prompts give, ResetRepo is only called with a
\* non-empty commit message, and no `commit -m` is issued with an empty one.
C13_MessageNeverEmpty ==
    /\ Invoked => commitMessage # <<>>
    /\ \A i \in At("commit -m") : log[i].arg # << <<>> >>

C13_Witness ==
    /\ flags.CommitMsg = <<>> /\ ~flags.NoInteractive
    /\ Issued("commit -m")
    /\ commitMessage = <<"a", " ">>

----------------------------------------------------------------------------
(* C14 *)

Segments(path) == 1 + Cardinality({i \in DOMAIN path : path[i] = "/"})

\* the configurations C14 is about
BadConfig ==
    \/ flags.RepoPath = <<>>
    \/ Segments(flags.RepoPath) < 2
    \/ flags.Token = ""
    \/ ToLower(flags.Provider) \notin {sGithub, sGitlab}

----------------------------------------------------------------------------
(* C15 *)

\* C15: the RepoInfo main passes to ResetRepo has a non-empty FullPath and a
\* non-empty RepoName.
C15_PathPartsNonEmpty ==
    Invoked => (repoInfo.FullPath # <<>> /\ repoInfo.RepoName # <<>>)

----------------------------------------------------------------------------
(* C16 *)

\* C16: when a non-dry GitHub release cleanup has listed successfully and
\* returned nil, a delete has been attempted for every release the hosted
\* repository had, however many there were.
C16_AllHostedReleasesDeleted ==
    (repoInfo.Provider = GitHub /\ ~repoInfo.DryRun /\ Terminal
        /\ ReleasesListed /\ result = "Success") =>
      \A i \in DOMAIN remote0.releases :
          \E j \in At("DeleteRelease") : log[j].id = remote0.releases[i].ID

----------------------------------------------------------------------------
(* Two runs in a row: a dry run, then a second run on what it left behind *)

TwiceMaxTags == 2

TwiceMaxReleases == 1

\* what `git tag` prints in a fresh clone: unchanged while the hosted tags
\* are unchanged, else one line per tag that is left
RecloneOutput(out, before, now) ==
    IF now = before THEN out
    ELSE LET left == SelectSeq([i \in 1..MaxTags |-> TagNameOf(i)],
                               LAMBDA t : t \in now)
         IN  Concat([i \in 1..Len(left) |-> left[i] \o <<NL>>])

\* the first process has ended; the program is started again on the same
\* repository, as a dry run or not. The new process starts in the original
\* directory, clones what the hosted repository now holds and finds the
\* workspace as the first run left it.
Rerun ==
    /\ entry = "ResetRepo" /\ run = 1 /\ pc = "done"
    /\ prev' = [result |-> result, err |-> err, log |-> log, oslog |-> oslog,
                transcript |-> transcript, tags |-> tags,
                dryRun |-> repoInfo.DryRun, remote0 |-> remote0, remote |-> remote]
    /\ run' = 2
    /\ \E d \in BOOLEAN : repoInfo' = [repoInfo EXCEPT !.DryRun = d]
    /\ pc' = "start"
    /\ opIdx' = 1
    /\ tags' = <<>>
    /\ releases' = <<>>
    /\ err' = "nil"
    /\ result' = "Running"
    /\ log' = <<>>
    /\ transcript' = <<>>
    /\ oslog' = <<>>
    /\ cwd' = "orig"
    /\ remote0' = remote
    /\ tagOutput' = RecloneOutput(tagOutput, remote0.tags, remote.tags)
    /\ UNCHANGED <<entry, commitMessage, remote, wsExists, flags, mainPc, exitCode,
                   uilog, ui, confirmed, other, keys>>

InitTwice ==
    /\ entry = "ResetRepo"
    /\ repoInfo \in {ri \in RepoInfos : ri.DryRun}
    /\ commitMessage = "Initial commit"
    /\ pc = "start"
    /\ opIdx = 1
    /\ tags = <<>>
    /\ releases = <<>>
    /\ err = "nil"
    /\ result = "Running"
    /\ log = <<>>
    /\ transcript = <<>>
    /\ \E n \in 0..TwiceMaxTags :
          /\ tagOutput \in TagOutputs(n)
          /\ \E m \in 0..TwiceMaxReleases : \E rels \in Releases(repoInfo.Provider, m) :
                remote = [history |-> "old",
                          tags |-> {TagNameOf(i) : i \in 1..n},
                          releases |-> rels]
    /\ remote0 = remote
    /\ wsExists \in BOOLEAN
    /\ cwd = "orig"
    /\ oslog = <<>>
    /\ flags = NoFlags
    /\ mainPc = "none"
    /\ exitCode = Running
    /\ uilog = <<>>
    /\ ui = NoUi
    /\ run = 1
    /\ prev = NoPrev
    /\ confirmed = FALSE
    /\ keys = <<>>
    /\ other = NoOther

NextTwice ==
    \/ RemoveStale
    \/ MakeWorkspace
    \/ ChangeDir
    \/ Clone
    \/ RewriteStep
    \/ ListTags
    \/ DeleteLocalTag
    \/ DryRunCheckpoint
    \/ DeleteRemoteTag
    \/ ForcePush
    \/ NewGitLabClient
    \/ ListReleases(GitHub)
    \/ ListReleases(GitLab)
    \/ DeleteRelease(GitHub)
    \/ DeleteRelease(GitLab)
    \/ DeferredRemoveAll
    \/ Rerun

SpecTwice == InitTwice /\ [][NextTwice]_vars

----------------------------------------------------------------------------
(* Vocabulary of the properties about two runs *)

Second == run = 2

\* the commands of a run that work on the local clone
LocalCommands == {"clone", "checkout --orphan temp_branch", "add -A", "commit -m",
                  "branch -D main", "branch -m main", "tag", "tag -d"}

Local(l) == SelectSeq(l, LAMBDA e : e.cmd \in LocalCommands)

\* the workspace preparation calls of a run
Prep(ol) == SelectSeq(ol, LAMBDA e : e.call # "deferred RemoveAll")

\* wherever both runs made the same call, it had the same outcome
Agree(a, b) == \A i \in DOMAIN a \cap DOMAIN b : a[i].ok = b[i].ok

SameOutcomes ==
    /\ Agree(Prep(oslog), Prep(prev.oslog))
    /\ Agree(Local(log), Local(prev.log))

\* the intended actions a dry run reports
Intended(tr) ==
    SelectSeq(tr, LAMBDA e : e.ev \in {"Would delete remote tags", "Would execute"})

\* the tags a dry run reports it would delete on the remote
WouldDelete(tr) ==
    LET sel == SelectSeq(tr, LAMBDA e : e.ev = "Would delete remote tags")
    IN  IF sel = <<>> THEN <<>> ELSE sel[1].arg

WouldPush(tr) ==
    \E i \in DOMAIN tr :
        tr[i].ev = "Would execute" /\ tr[i].arg = <<"push -f origin main">>

----------------------------------------------------------------------------
(* C17 *)

\* C17: two dry runs in a row on the same repository, with the same command
\* outcomes, issue the same commands and report the same intended actions
\* (the same would-delete tag list and the same would-execute push), and the
\* hosted repository is unchanged after each of them.
C17_DryRunIdempotent ==
    (Second /\ repoInfo.DryRun) =>
      /\ prev.remote = prev.remote0
      /\ remote = prev.remote0
      /\ (Terminal /\ SameOutcomes) =>
            /\ Intended(transcript) = Intended(prev.transcript)
            /\ transcript = prev.transcript
            /\ log = prev.log
            /\ result = prev.result

C17_Witness ==
    /\ Second /\ repoInfo.DryRun /\ Terminal /\ SameOutcomes
    /\ Len(WouldDelete(transcript)) = 2
    /\ WouldPush(prev.transcript)
    /\ Failed("tag -d") # {}

----------------------------------------------------------------------------
(* C18 *)

\* C18: a non-dry run on the repository a dry run was made on, with the same
\* outcomes of the local commands and of the workspace preparation, issues
\* the same local commands (clone, the five rewrite commands, tag listing,
\* local tag deletions); the tags the dry run said it would delete are those
\* the non-dry run issues a remote deletion for, and the dry run said it
\* would push main exactly when the non-dry run issues the force-push.
C18_DryRunDecidesAlike ==
    (Second /\ ~repoInfo.DryRun /\ Terminal /\ SameOutcomes) =>
      /\ Local(log) = prev.log
      /\ ArgsOf("push origin --delete")
            = [i \in 1..Len(WouldDelete(prev.transcript))
                  |-> RefOf(WouldDelete(prev.transcript)[i])]
      /\ WouldPush(prev.transcript) <=> Issued("push -f origin main")

C18_Witness ==
    /\ Second /\ ~repoInfo.DryRun /\ Terminal /\ SameOutcomes
    /\ Len(WouldDelete(prev.transcript)) = 2
    /\ Cardinality(At("push origin --delete")) = 2
    /\ Failed("push origin --delete") # {}
    /\ Issued("push -f origin main")

----------------------------------------------------------------------------
(* C19 *)

NonFatalSteps == {"branch -D main", "tag -d", "push origin --delete", "DeleteRelease"}

\* ResetRepo ran to its end and nothing but non-fatal steps failed
OnlyNonFatalFailures ==
    /\ Terminal
    /\ \A i \in DOMAIN oslog : oslog[i].call # "deferred RemoveAll" => oslog[i].ok
    /\ \A i \in DOMAIN log : ~log[i].ok => log[i].cmd \in NonFatalSteps
    /\ err # "failed to create GitLab client"

\* C19: when the process has ended after calling ResetRepo, a Fatal result
\* gave a nonzero exit status and no completion message, and a run in which
\* only non-fatal steps failed (old-branch deletion, tag deletions, release
\* deletions) gave exit status 0 with the completion message.
C19_VerdictFollowsFatalOnly ==
    (Exited /\ Invoked) =>
      /\ result = "Fatal"
            => (exitCode # 0 /\ \A i \in DOMAIN uilog : uilog[i] \notin Completion)
      /\ OnlyNonFatalFailures
            => (exitCode = 0 /\ \E i \in DOMAIN uilog : uilog[i] \in Completion)

----------------------------------------------------------------------------
(* C20 *)

\* `git tag` printed nothing but white space
Blank(output) == \A i \in DOMAIN output : output[i] \in Whitespace

\* C20: on a repository without tags (empty or blank `git tag` output)
\* GetGitTags returns the empty sequence, of length 0, and never the
\* one-element sequence holding the empty string.
C20_NoTagsGivesEmptySequence ==
    /\ Blank(tagOutput) =>
          /\ Len(GetGitTags(tagOutput)) = 0
          /\ GetGitTags(tagOutput) # << <<>> >>
    /\ (Blank(tagOutput) /\ TagListed) => tags = <<>>

C20_Witness ==
    /\ TagListed /\ tagOutput = <<NL>>
    /\ tags = <<>> /\ Reported("No local tags found")

----------------------------------------------------------------------------
(* Dry runs on a range of targets *)

TargetMaxTags == 1

sOwner == <<"o", "w", "n", "e", "r">>
sTeamSub == <<"t", "e", "a", "m", "/", "s", "u", "b">>
sRepo == <<"r", "e", "p", "o">>
sProj == <<"p", "r", "o", "j">>

\* RepoInfo values as the tests and main build them: any GitLab URL on a
\* GitHub target, a non-empty one on a GitLab target
TargetRepoInfos ==
    { ri \in [Provider : {GitHub, GitLab}, FullPath : {sOwner, sTeamSub},
               RepoName : {sRepo, sProj}, Token : {"token"},
               GitLabURL : {"", "https://gitlab.com", "https://gitlab.example.com"},
               DryRun : {TRUE}] :
        ri.Provider = GitHub \/ ri.GitLabURL # "" }

InitTargets ==
    /\ entry = "ResetRepo"
    /\ repoInfo \in TargetRepoInfos
    /\ commitMessage = "Initial commit"
    /\ pc = "start"
    /\ opIdx = 1
    /\ tags = <<>>
    /\ releases = <<>>
    /\ err = "nil"
    /\ result = "Running"
    /\ log = <<>>
    /\ transcript = <<>>
    /\ \E n \in 0..TargetMaxTags :
          /\ tagOutput = TagLines(n)
          /\ remote = [history |-> "old",
                       tags |-> {TagNameOf(i) : i \in 1..n},
                       releases |-> <<>>]
    /\ remote0 = remote
    /\ wsExists \in BOOLEAN
    /\ cwd = "orig"
    /\ oslog = <<>>
    /\ flags = NoFlags
    /\ mainPc = "none"
    /\ exitCode = Running
    /\ uilog = <<>>
    /\ ui = NoUi
    /\ run = 1
    /\ prev = NoPrev
    /\ confirmed = FALSE
    /\ keys = <<>>
    /\ other = NoOther

NextTargets ==
    \/ RemoveStale
    \/ MakeWorkspace
    \/ ChangeDir
    \/ Clone
    \/ RewriteStep
    \/ ListTags
    \/ DeleteLocalTag
    \/ DryRunCheckpoint
    \/ DeferredRemoveAll

SpecTargets == InitTargets /\ [][NextTargets]_vars

----------------------------------------------------------------------------
(* C21 *)

\* C21: the URL given to `git clone` is made of the provider, the owner or
\* group path, the repository name and the base URL alone: on GitHub
\* https://github.com/{owner}/{repo}.git whatever the GitLab URL, on GitLab
\* {baseURL}/{path}/{repo}.git, also with a path of several segments; a run
\* clones once.
C21_CloneURLDeterministic ==
    /\ Cardinality(At("clone")) <= 1
    /\ \A i \in At("clone") :
          log[i].arg =
             IF repoInfo.Provider = GitHub
             THEN <<"https://github.com/", repoInfo.FullPath, "/",
                    repoInfo.RepoName, ".git">>
             ELSE <<repoInfo.GitLabURL, "/", repoInfo.FullPath, "/",
                    repoInfo.RepoName, ".git">>

\* the GitLab scenario: https://gitlab.example.com/team/sub/proj.git
C21_Witness ==
    /\ repoInfo.Provider = GitLab
    /\ \E i \in At("clone") :
          log[i].arg = <<"https://gitlab.example.com", "/", sTeamSub, "/", sProj, ".git">>

\* a GitHub target that carries a GitLab URL
C21_WitnessGitHub ==
    /\ repoInfo.Provider = GitHub /\ repoInfo.GitLabURL = "https://gitlab.example.com"
    /\ \E i \in At("clone") :
          log[i].arg = <<"https://github.com/", sOwner, "/", sRepo, ".git">>

----------------------------------------------------------------------------
(* The same run again with another token *)

ReplayMaxTags == 1

ReplayMaxReleases == 1

Tokens == {"token", "token2"}

\* the run is made a second time from the state the first started in, with
\* the other token
Replay ==
    /\ entry = "ResetRepo" /\ run = 1 /\ pc = "done"
    /\ prev' = [result |-> result, err |-> err, log |-> log, oslog |-> oslog,
                transcript |-> transcript, token |-> repoInfo.Token]
    /\ run' = 2
    /\ \E tk \in Tokens \ {repoInfo.Token} : repoInfo' = [repoInfo EXCEPT !.Token = tk]
    /\ pc' = "start"
    /\ opIdx' = 1
    /\ tags' = <<>>
    /\ releases' = <<>>
    /\ err' = "nil"
    /\ result' = "Running"
    /\ log' = <<>>
    /\ transcript' = <<>>
    /\ oslog' = <<>>
    /\ cwd' = "orig"
    /\ remote' = remote0
    /\ wsExists' = FALSE
    /\ UNCHANGED <<entry, commitMessage, tagOutput, remote0, flags, mainPc, exitCode,
                   uilog, ui, confirmed, other, keys>>

InitReplay ==
    /\ entry = "ResetRepo"
    /\ repoInfo \in RepoInfos
    /\ commitMessage = "Initial commit"
    /\ pc = "start"
    /\ opIdx = 1
    /\ tags = <<>>
    /\ releases = <<>>
    /\ err = "nil"
    /\ result = "Running"
    /\ log = <<>>
    /\ transcript = <<>>
    /\ \E n \in 0..ReplayMaxTags :
          /\ tagOutput = TagLines(n)
          /\ \E m \in 0..ReplayMaxReleases : \E rels \in Releases(repoInfo.Provider, m) :
                remote = [history |-> "old",
                          tags |-> {TagNameOf(i) : i \in 1..n},
                          releases |-> rels]
    /\ remote0 = remote
    /\ wsExists = FALSE
    /\ cwd = "orig"
    /\ oslog = <<>>
    /\ flags = NoFlags
    /\ mainPc = "none"
    /\ exitCode = Running
    /\ uilog = <<>>
    /\ ui = NoUi
    /\ run = 1
    /\ prev = NoPrev
    /\ confirmed = FALSE
    /\ keys = <<>>
    /\ other = NoOther

NextReplay ==
    \/ RemoveStale
    \/ MakeWorkspace
    \/ ChangeDir
    \/ Clone
    \/ RewriteStep
    \/ ListTags
    \/ DeleteLocalTag
    \/ DryRunCheckpoint
    \/ DeleteRemoteTag
    \/ ForcePush
    \/ NewGitLabClient
    \/ ListReleases(GitHub)
    \/ ListReleases(GitLab)
    \/ DeleteRelease(GitHub)
    \/ DeleteRelease(GitLab)
    \/ DeferredRemoveAll
    \/ Replay

SpecReplay == InitReplay /\ [][NextReplay]_vars

----------------------------------------------------------------------------
(* C22 *)

ClientFailed(e) == e = "failed to create GitLab client"

\* every external call the two runs both made had the same outcome
SameOutcomesThroughout ==
    /\ Agree(oslog, prev.oslog)
    /\ Agree(log, prev.log)
    /\ ClientFailed(err) <=> ClientFailed(prev.err)

\* C22: two runs that differ in the token alone, with the same outcome of
\* every external call, print the same transcript, issue the same git
\* command lines and API calls and return the same error; the token is no
\* part of the clone URL.
C22_TokenNeverLogged ==
    /\ \A i \in At("clone") : \A k \in DOMAIN log[i].arg : log[i].arg[k] # repoInfo.Token
    /\ (Second /\ Terminal /\ SameOutcomesThroughout) =>
          /\ repoInfo.Token # prev.token
          /\ transcript = prev.transcript
          /\ log = prev.log
          /\ err = prev.err
          /\ result = prev.result

C22_Witness ==
    /\ Second /\ Terminal /\ SameOutcomesThroughout
    /\ repoInfo.Token = "token2" /\ prev.token = "token"
    /\ ~repoInfo.DryRun /\ result = "Success"
    /\ Issued("DeleteRelease") /\ Issued("push origin --delete")

----------------------------------------------------------------------------
(* Two processes of the program on one machine *)

PairMaxTags == 1

PairMaxReleases == 1

\* everything of the first process but the directory both work in
own == <<entry, repoInfo, commitMessage, pc, opIdx, tags, releases, err, result,
         log, transcript, tagOutput, remote, remote0, cwd, oslog, flags, mainPc,
         exitCode, uilog, ui, run, prev, confirmed, keys>>

\* the second process, on another repository: os.RemoveAll(tmpPath)
OtherRemoveStale ==
    /\ other.pc = "start"
    /\ \E ok \in BOOLEAN :
          /\ wsExists' = RemoveAll(ok, wsExists)
          /\ other' = [pc |-> IF ok THEN "mkdir" ELSE "done"]
    /\ UNCHANGED own

\* the second process: os.MkdirAll(tmpPath, 0755)
OtherMakeWorkspace ==
    /\ other.pc = "mkdir"
    /\ \E ok \in BOOLEAN :
          /\ wsExists' = (ok \/ wsExists)
          /\ other' = [pc |-> IF ok THEN "work" ELSE "done"]
    /\ UNCHANGED own

\* the second process: everything between its defer statement and its return
OtherWork ==
    /\ other.pc = "work"
    /\ other' = [pc |-> "defer"]
    /\ UNCHANGED <<own, wsExists>>

\* the second process: the deferred os.RemoveAll(tmpPath)
OtherDeferredRemoveAll ==
    /\ other.pc = "defer"
    /\ \E ok \in BOOLEAN : wsExists' = RemoveAll(ok, wsExists)
    /\ other' = [pc |-> "done"]
    /\ UNCHANGED own

InitPair ==
    /\ entry = "ResetRepo"
    /\ repoInfo \in RepoInfos
    /\ commitMessage = "Initial commit"
    /\ pc = "start"
    /\ opIdx = 1
    /\ tags = <<>>
    /\ releases = <<>>
    /\ err = "nil"
    /\ result = "Running"
    /\ log = <<>>
    /\ transcript = <<>>
    /\ \E n \in 0..PairMaxTags :
          /\ tagOutput = TagLines(n)
          /\ \E m \in 0..PairMaxReleases : \E rels \in Releases(repoInfo.Provider, m) :
                remote = [history |-> "old",
                          tags |-> {TagNameOf(i) : i \in 1..n},
                          releases |-> rels]
    /\ remote0 = remote
    /\ wsExists \in BOOLEAN
    /\ cwd = "orig"
    /\ oslog = <<>>
    /\ flags = NoFlags
    /\ mainPc = "none"
    /\ exitCode = Running
    /\ uilog = <<>>
    /\ ui = NoUi
    /\ run = 1
    /\ prev = NoPrev
    /\ confirmed = FALSE
    /\ keys = <<>>
    /\ other = [pc |-> "start"]

NextPair ==
    \/ RemoveStale
    \/ MakeWorkspace
    \/ ChangeDir
    \/ Clone
    \/ RewriteStep
    \/ ListTags
    \/ DeleteLocalTag
    \/ DryRunCheckpoint
    \/ DeleteRemoteTag
    \/ ForcePush
    \/ NewGitLabClient
    \/ ListReleases(GitHub)
    \/ ListReleases(GitLab)
    \/ DeleteRelease(GitHub)
    \/ DeleteRelease(GitLab)
    \/ DeferredRemoveAll
    \/ OtherRemoveStale
    \/ OtherMakeWorkspace
    \/ OtherWork
    \/ OtherDeferredRemoveAll

SpecPair == InitPair /\ [][NextPair]_vars

----------------------------------------------------------------------------
(* C23 *)

\* a process is between its successful MkdirAll and the end of its deferred
\* removal
Using == pc \notin {"idle", "start", "mkdir", "done"}

OtherUsing == other.pc \in {"work", "defer"}

\* C23: while one process is using the workspace, no step of the other
\* removes the directory or moves into it.
C23_WorkspaceExclusive ==
    [][ /\ (Using /\ other' # other)
            => (wsExists' = wsExists /\ other'.pc # "work")
        /\ (OtherUsing /\ pc' # pc)
            => (wsExists' = wsExists /\ pc' # "chdir") ]_vars

----------------------------------------------------------------------------
(* C24 *)

\* the n tag names `git tag` printed, in output order
Names(n) == [i \in 1..n |-> TagNameOf(i)]

\* C24: on output made of n >= 1 newline-terminated tag names GetGitTags
\* returns those n names in output order, none of them empty; when the tag
\* command fails the caller gets the error and no list.
C24_TagsInOutputOrder ==
    /\ \A n \in 1..MaxTags : GetGitTags(TagLines(n)) = Names(n)
    /\ (TagListed /\ remote0.tags # {}) =>
          /\ tags = Names(Cardinality(remote0.tags))
          /\ \A i \in DOMAIN tags : tags[i] # <<>>
    /\ Failed("tag") # {} =>
          (tags = <<>> /\ err = "failed to list tags" /\ result = "Fatal")

C24_Witness ==
    /\ TagListed
    /\ tagOutput = TagLines(3)
    /\ tags = <<TagNameOf(1), TagNameOf(2), TagNameOf(3)>>

C24_WitnessError ==
    /\ Failed("tag") # {} /\ Terminal /\ remote0.tags # {}

----------------------------------------------------------------------------
(* C25 *)

AfterTagListing == {"tag -d", "push origin --delete", "push -f origin main",
                    "ListReleases", "DeleteRelease"}

\* C25: when `git tag` fails the run ends in Fatal, and no tag deletion,
\* force-push or release API call is issued, in a dry run or not.
C25_TagListFailureStops ==
    Failed("tag") # {} =>
      /\ result = "Fatal" /\ err = "failed to list tags"
      /\ pc \in {"defer", "done"}
      /\ \A i \in DOMAIN log : log[i].cmd \notin AfterTagListing
      /\ log[Len(log)].cmd = "tag"
      /\ remote = remote0

C25_Witness ==
    /\ Failed("tag") # {} /\ Terminal
    /\ ~repoInfo.DryRun /\ Len(remote0.releases) > 0
    /\ Cardinality(remote0.tags) = 2

C25_WitnessDryRun ==
    /\ Failed("tag") # {} /\ Terminal
    /\ repoInfo.DryRun /\ Cardinality(remote0.tags) = 2

----------------------------------------------------------------------------
(* C26 *)

Cancelled == Shown("Operation cancelled by user")

PromptFailed ==
    Shown("Error during confirmation") \/ Shown("Error getting commit message")

\* C26: without -n, ResetRepo is only called once the confirmation prompt has
\* returned true; a declined confirmation or a cancelled commit message
\* prompt ends the process with status 0, a prompt error with a nonzero
\* status, and in all three nothing has been touched.
C26_ConfirmedBeforeReset ==
    (mainPc # "none" /\ ~flags.NoInteractive) =>
      /\ Invoked => confirmed
      /\ (Exited /\ ui.model = "confirm" /\ ui.Done /\ ~ui.Answer)
            => (Cancelled /\ exitCode = 0 /\ NoEffects)
      /\ (Exited /\ ui.model = "commit" /\ ui.Quit /\ ~ui.Done)
            => (Cancelled /\ exitCode = 0 /\ NoEffects)
      /\ Cancelled => (exitCode = 0 /\ NoEffects)
      /\ PromptFailed => (exitCode # 0 /\ exitCode # Running /\ NoEffects)

C26_Witness ==
    /\ ~flags.NoInteractive /\ Exited /\ confirmed
    /\ ui.model = "commit" /\ ui.Quit /\ ~ui.Done
    /\ exitCode = 0

C26_WitnessDeclined ==
    /\ ~flags.NoInteractive /\ Exited /\ ~confirmed
    /\ ui.model = "confirm" /\ ui.Done /\ exitCode = 0

C26_WitnessConfirmed ==
    /\ ~flags.NoInteractive /\ confirmed /\ Issued("clone")

----------------------------------------------------------------------------
(* C27 *)

\* C27: when the final report of a non-dry run has been printed, the hosted
\* repository has no tag and no release left.
C27_ReportMeansNothingLeft ==
    Shown("All tags and releases have been deleted.") =>
      (remote.tags = {} /\ remote.releases = <<>>)

----------------------------------------------------------------------------
(* C28 *)

\* the positions from which a git command is issued after the clone
AfterClonePositions == {"rewrite", "listTags", "localTags", "remoteTags", "push"}

\* C28: every git command after the clone is issued with the working
\* directory inside the clone.
C28_CommandsInsideClone ==
    pc \in AfterClonePositions => cwd = "repo"

----------------------------------------------------------------------------
(* C29 *)

\* the scheduler keeps the process running as long as it has a step to take
SpecFair == Spec /\ WF_vars(Next)

FixedSteps == {"clone", "checkout --orphan temp_branch", "add -A", "commit -m",
               "branch -D main", "branch -m main", "tag", "push -f origin main",
               "ListReleases"}

NoRepeat(seq) == \A i, j \in DOMAIN seq : seq[i] = seq[j] => i = j

\* each fixed step at most once, one local and one remote deletion per
\* enumerated tag at most, one delete call per listed release at most
AtMostOnce ==
    /\ \A c \in FixedSteps : Cardinality(At(c)) <= 1
    /\ \A c \in {"RemoveAll", "MkdirAll", "Chdir", "Chdir repo", "deferred RemoveAll"} :
          Cardinality({i \in DOMAIN oslog : oslog[i].call = c}) <= 1
    /\ IsPrefix(ArgsOf("tag -d"), tags) /\ NoRepeat(ArgsOf("tag -d"))
    /\ IsPrefix(ArgsOf("push origin --delete"), [i \in DOMAIN tags |-> RefOf(tags[i])])
    /\ NoRepeat(ArgsOf("push origin --delete"))
    /\ Cardinality(At("DeleteRelease")) <= Len(releases)
    /\ NoRepeat(KeysOf("DeleteRelease"))

\* C29: every run of ResetRepo ends, in Success or in Fatal, and no step is
\* repeated on the way.
C29_EndsInSuccessOrFatal ==
    IsRun => ([]AtMostOnce /\ <>(Terminal /\ result \in {"Success", "Fatal"}))

----------------------------------------------------------------------------
(* C30 *)

Yes == {"y", "Y"}

No == {"n", "N", "q", "Q", "esc", "ctrl+c"}

----------------------------------------------------------------------------
(* A prompt model on its own, fed key events one after the other *)

MaxKeys == 4

Key(k, quit) == [key |-> k, quit |-> quit]

\* model.Update(msg) for a key of the confirmation prompt; the tea.Cmd it
\* returns belongs to this call alone
FeedConfirm ==
    /\ ui.model = "confirm" /\ Len(keys) < MaxKeys
    /\ \E key \in ConfirmKeys :
          LET m == ConfirmUpdate([ui EXCEPT !.Quit = FALSE], key)
          IN  /\ ui' = m
              /\ keys' = Append(keys, Key(key, m.Quit))
    /\ UNCHANGED <<entry, repoInfo, commitMessage, pc, opIdx, tags, releases, err,
                   result, log, transcript, tagOutput, remote, remote0, wsExists,
                   cwd, oslog, flags, mainPc, exitCode, uilog, run, prev, confirmed,
                   other>>

\* model.Update(msg) for a key of the commit message prompt
FeedCommit ==
    /\ ui.model = "commit" /\ Len(keys) < MaxKeys
    /\ \E key \in CommitKeys :
          /\ key \in Runes => Len(ui.Value) < MaxInput
          /\ LET m == CommitUpdate([ui EXCEPT !.Quit = FALSE], key)
             IN  /\ ui' = m
                 /\ keys' = Append(keys, Key(key, m.Quit))
    /\ UNCHANGED <<entry, repoInfo, commitMessage, pc, opIdx, tags, releases, err,
                   result, log, transcript, tagOutput, remote, remote0, wsExists,
                   cwd, oslog, flags, mainPc, exitCode, uilog, run, prev, confirmed,
                   other>>

InitKeys ==
    /\ ui \in {InitialConfirmModel, InitialCommitModel}
    /\ keys = <<>>
    /\ entry = "ResetRepo"
    /\ repoInfo = ZeroRepoInfo
    /\ commitMessage = <<>>
    /\ pc = "idle"
    /\ opIdx = 1
    /\ tags = <<>>
    /\ releases = <<>>
    /\ err = "nil"
    /\ result = "Running"
    /\ log = <<>>
    /\ transcript = <<>>
    /\ tagOutput = <<>>
    /\ remote = [history |-> "old", tags |-> {}, releases |-> <<>>]
    /\ remote0 = remote
    /\ wsExists = FALSE
    /\ cwd = "orig"
    /\ oslog = <<>>
    /\ flags = NoFlags
    /\ mainPc = "none"
    /\ exitCode = Running
    /\ uilog = <<>>
    /\ run = 1
    /\ prev = NoPrev
    /\ confirmed = FALSE
    /\ other = NoOther

NextKeys == FeedConfirm \/ FeedCommit

SpecKeys == InitKeys /\ [][NextKeys]_vars

----------------------------------------------------------------------------
(* C31 *)

\* a commit message model that was fed keys on its own
CommitFed == mainPc = "none" /\ ui.model = "commit"

\* no Update has answered with tea.Quit yet
NoQuitYet == \A i \in DOMAIN keys : ~keys[i].quit

\* no Update before the last one has answered with tea.Quit
NoQuitBeforeLast == \A i \in DOMAIN keys : keys[i].quit => i = Len(keys)

\* what the claim says of one more key, fed to the model as it is
CommitStep(key) ==
    LET m0 == [ui EXCEPT !.Quit = FALSE]
        m  == CommitUpdate(m0, key)
    IN  /\ (m.Done /\ ~ui.Done) => (key = "enter" /\ ui.Value # <<>>)
        /\ (key = "enter" /\ ui.Value = <<>>) => (m.Done = ui.Done /\ ~m.Quit)
        /\ key \in {"esc", "ctrl+c"} => (m.Quit /\ ~m.Done /\ m.Value = ui.Value)

\* C31 as stated, over every sequence of keys: Done only comes from enter on
\* a non-empty input, so Done implies a non-empty text; enter on an empty
\* input neither sets Done nor quits; esc and ctrl+c quit with Done false
\* and the text unchanged; PromptCommitMessage returns the empty string
\* whenever Done is false.
C31_DoneMeansMessage ==
    CommitFed =>
      /\ ui.Done => ui.Value # <<>>
      /\ \A key \in CommitKeys : CommitStep(key)
      /\ ~ui.Done => PromptResult(ui) = <<>>

\* C31, amended: the same, for the keys up to and including the first one
\* that Update answers with tea.Quit.
C31_DoneMeansMessageUntilQuit ==
    CommitFed =>
      /\ NoQuitBeforeLast =>
            /\ ui.Done => (ui.Value # <<>> /\ keys[Len(keys)] = Key("enter", TRUE))
            /\ ui.Done => PromptResult(ui) = ui.Value
      /\ NoQuitYet => (~ui.Done /\ \A key \in CommitKeys : CommitStep(key))
      /\ ~ui.Done => PromptResult(ui) = <<>>

C31_Witness ==
    /\ CommitFed /\ NoQuitBeforeLast
    /\ keys = <<Key("enter", FALSE), Key("a", FALSE), Key("enter", TRUE)>>
    /\ ui.Done /\ ui.Value = <<"a">>

C31_WitnessCancel ==
    /\ CommitFed /\ NoQuitBeforeLast
    /\ keys = <<Key("a", FALSE), Key("esc", TRUE)>>
    /\ ~ui.Done /\ ui.Value = <<"a">> /\ PromptResult(ui) = <<>>

----------------------------------------------------------------------------
(* C32 *)

\* main has taken the command line: it has passed every check of the
\* configuration and built its RepoInfo
Accepted == mainPc \notin {"none", "main"} /\ ~flags.ShowVersion /\ ~BadConfig

\* the GitLab project path that DeleteGitLabReleases asked the releases of
ProjectPaths == {log[i].arg[1] \o <<log[i].arg[2]>> \o log[i].arg[3] :
                    i \in At("ListReleases")}

\* C32: for an accepted repository path of k >= 2 segments, RepoName is the
\* last segment and FullPath the first k-1 joined by "/", so FullPath, "/"
\* and RepoName together give the path back (also as the project path the
\* GitLab cleaner asks for); the provider is chosen without regard to case
\* and the GitLab base URL is in RepoInfo only for GitLab.
C32_PathSplitAndProvider ==
    Accepted =>
      /\ Segments(repoInfo.RepoName) = 1
      /\ Segments(repoInfo.FullPath) = Segments(flags.RepoPath) - 1
      /\ repoInfo.FullPath \o <<"/">> \o repoInfo.RepoName = flags.RepoPath
      /\ repoInfo.Provider = (IF ToLower(flags.Provider) = sGitlab THEN GitLab ELSE GitHub)
      /\ flags.Provider = <<"G", "i", "t", "L", "a", "b">> => repoInfo.Provider = GitLab
      /\ repoInfo.GitLabURL = (IF repoInfo.Provider = GitLab THEN flags.GitLabURL ELSE "")
      /\ repoInfo.Provider = GitLab => ProjectPaths \subseteq {flags.RepoPath}

C32_Witness ==
    /\ Accepted /\ Segments(flags.RepoPath) = 3
    /\ flags.Provider = <<"G", "i", "t", "L", "a", "b">>
    /\ repoInfo.FullPath = <<"g", "/", "s">> /\ repoInfo.RepoName = <<"r">>
    /\ repoInfo.GitLabURL = "https://gitlab.com"
    /\ ProjectPaths = {flags.RepoPath}

C32_WitnessGitHub ==
    /\ Accepted /\ flags.Provider = sGithub
    /\ flags.RepoPath = <<"o", "/", "r">>
    /\ repoInfo.FullPath = <<"o">> /\ repoInfo.RepoName = <<"r">>
    /\ repoInfo.Provider = GitHub /\ repoInfo.GitLabURL = ""
    /\ Invoked

====
